---- MODULE Spec2Model ----
(***************************************************************************)
(* Authentication / registration lifecycle of the portfolio backend:       *)
(* backend/src/controllers/user.controller.js and                          *)
(* backend/src/models/user.model.js.                                       *)
(*                                                                         *)
(* Every HTTP request is an asynchronous task.  A handler is cut into one  *)
(* action per database operation it awaits: between two awaits of one      *)
(* request the steps of other requests may run, inside one step nothing    *)
(* else runs (node's single thread).  Procs are the requests that can be   *)
(* suspended at an await at the same time.                                 *)
(***************************************************************************)
EXTENDS Integers, Sequences, FiniteSets, TLC

VARIABLES
    users,      \* the User collection: users[i] is the document with _id = i
    otps,       \* the OtpVerification collection (a set of documents)
    procs,      \* procs[p]: where request slot p is suspended, and its locals
    clock,      \* wall-clock time in seconds (jwt's iat unit)
    last,       \* the response most recently sent to a client
    redeemed,   \* history: refresh tokens a refresh request has succeeded with
    projects    \* the Project collection: projects[k] has _id = k

vars == <<users, otps, procs, clock, last, redeemed, projects>>

----------------------------------------------------------------------------
(* Bounds and input domains *)

\* the clock stops ticking here
MaxClock == 2
\* process.env.REFRESH_TOKEN_EXPIRY, in seconds
RefreshTokenExpiry == 2

Procs == {"p1", "p2"}

\* JavaScript's undefined (also: a field the request does not carry), where a
\* string is expected
Undefined == "undefined"
\* undefined and null, where a token is expected
NoToken == [none |-> "undefined"]
NullToken == [none |-> "null"]

Emails == {"a@x.io", "b@x.io"}
BadEmail == "not-an-email"
GithubIds == {"gh-a", "gh-b"}
BadGithubId == "-bad-"
RawUsernames == {"Alice", "bob"}
Passwords == {"pw1", "pw2"}
Codes == {"1111", "2222"}
Fullname == "Some Name"

\* String.prototype.toLowerCase on the usernames above
ToLowerCase(s) == IF s = "Alice" THEN "alice" ELSE s

\* bcrypt.hash / bcrypt.compare: the hash is not the plaintext, and compare
\* accepts exactly the plaintext that was hashed
BcryptHash(s) == "$2b$10$" \o s
BcryptCompare(s, h) == h = BcryptHash(s)

----------------------------------------------------------------------------
(* Tokens *)

UserIds == 1..Cardinality(Emails)

\* jwt.sign({_id}, REFRESH_TOKEN_SECRET, {expiresIn}): HS256 over the payload
\* {_id, iat, exp = iat + expiry} is deterministic, so the token is a function
\* of the user id and the second it was signed in.
generateRefreshToken(id, now) == [_id |-> id, iat |-> now, sig |-> TRUE]

\* a string that is no token signed with the secret (also the cookie text
\* "undefined")
ForgedToken == [_id |-> 0, iat |-> 0, sig |-> FALSE]

\* what a client can put in the refreshToken cookie / body field
TokenInputs ==
    {NoToken, ForgedToken}
        \cup { generateRefreshToken(i, t) :
                 i \in 1..(Cardinality(Emails) + 1), t \in 0..MaxClock }

\* jwt.verify(token, REFRESH_TOKEN_SECRET): signature and expiry
JwtVerify(tok, now) == tok.sig /\ now < tok.iat + RefreshTokenExpiry

----------------------------------------------------------------------------
(* Responses *)

\* what a response is remembered by: the endpoint, the HTTP status, the
\* refresh token it carries, what was asked, and the names of the fields of
\* the User documents in its body
NoRequest == [none |-> TRUE]

RespondTo(req, op, status, tok) ==
    [op |-> op, status |-> status, refreshToken |-> tok, req |-> req,
     user |-> {}]

Respond(op, status, tok) == RespondTo(NoRequest, op, status, tok)

\* a response whose body holds User documents with these fields
RespondUser(op, status, tok, fields) ==
    [Respond(op, status, tok) EXCEPT !.user = fields]

\* JSON of a User document: the paths that hold a value (undefined is left
\* out)
FieldsOf(doc) ==
    {f \in DOMAIN doc : f # "refreshToken" \/ doc.refreshToken # NoToken}

\* .select("-password -refreshToken")
Select(fields, excluded) == fields \ excluded

Idle == [pc |-> "idle"]

IsIdle(p) == procs[p].pc = "idle"

Init ==
    /\ users = <<>>
    /\ otps = {}
    /\ procs = [p \in Procs |-> Idle]
    /\ clock = 0
    /\ last = Respond("none", 0, NoToken)
    /\ redeemed = {}
    /\ projects = <<>>

\* time passes
Tick ==
    /\ clock < MaxClock
    /\ clock' = clock + 1
    /\ UNCHANGED <<users, otps, procs, last, redeemed, projects>>

----------------------------------------------------------------------------
(* The User collection *)

\* Mongoose casts a query on username with the schema's lowercase setter
QueryUsername(u) == IF u = Undefined THEN Undefined ELSE ToLowerCase(u)

Min(S) == CHOOSE x \in S : \A y \in S : x <= y

\* a findOne: the first document (natural order) among the matches, 0 for null
FirstOf(ids) == IF ids = {} THEN 0 ELSE Min(ids)

\* object destructuring  const { name } = obj
Field(obj, name) == IF name \in DOMAIN obj THEN obj[name] ELSE NoToken

\* generateAccessTokenAndRefreshToken(userId): signs both tokens for the user
\* and returns them as { accessToken, refreshToken }
TokenPair(uid) ==
    [accessToken |-> [_id |-> uid, iat |-> clock],
     refreshToken |-> generateRefreshToken(uid, clock)]

\* ... and saves the refresh token on the user document.  Any login of the
\* same user that has saved its own token and not yet answered is overtaken.
Overtake(uid, p) ==
    [q \in Procs |->
        IF q # p /\ procs[q].pc = "login_select" /\ procs[q].uid = uid
        THEN [procs[q] EXCEPT !.intact = FALSE]
        ELSE procs[q]]

StoreRefreshToken(uid, tok) == [users EXCEPT ![uid].refreshToken = tok]

----------------------------------------------------------------------------
(* loginUser *)

\* (mutant) the password is not compared with the stored hash
LoginFindWithoutPassword(p, username, email, password) ==
    /\ IsIdle(p)
    /\ LET given(x) == x # Undefined /\ x # ""
           foundUser == FirstOf({i \in DOMAIN users :
                            \/ users[i].username = QueryUsername(username)
                            \/ users[i].email = email})
       IN  IF ~((given(username) \/ given(email)) /\ given(password))
           THEN /\ last' = Respond("login", 400, NoToken)
                /\ UNCHANGED procs
           ELSE IF foundUser = 0
           THEN /\ last' = Respond("login", 404, NoToken)
                /\ UNCHANGED procs
           ELSE /\ procs' = [procs EXCEPT ![p] =
                                [pc |-> "login_generate", uid |-> foundUser]]
                /\ UNCHANGED last
    /\ UNCHANGED <<users, otps, clock, redeemed, projects>>

\* lines 144-172: up to the password check
LoginFind(p, username, email, password) ==
    /\ IsIdle(p)
    /\ LET given(x) == x # Undefined /\ x # ""
           foundUser == FirstOf({i \in DOMAIN users :
                            \/ users[i].username = QueryUsername(username)
                            \/ users[i].email = email})
       IN  IF ~((given(username) \/ given(email)) /\ given(password))
           THEN /\ last' = Respond("login", 400, NoToken)
                /\ UNCHANGED procs
           ELSE IF foundUser = 0
           THEN /\ last' = Respond("login", 404, NoToken)
                /\ UNCHANGED procs
           ELSE IF ~BcryptCompare(password, users[foundUser].password)
           THEN /\ last' = Respond("login", 401, NoToken)
                /\ UNCHANGED procs
           ELSE /\ procs' = [procs EXCEPT ![p] =
                                [pc |-> "login_generate", uid |-> foundUser]]
                /\ UNCHANGED last
    /\ UNCHANGED <<users, otps, clock, redeemed, projects>>

\* (mutant) the pair is destructured under the name refreshAccessToken uses
LoginGenerateNewRefreshToken(p) ==
    /\ procs[p].pc = "login_generate"
    /\ LET uid == procs[p].uid
           pair == TokenPair(uid)
           refreshToken == Field(pair, "newRefreshToken")
       IN  /\ users' = StoreRefreshToken(uid, pair.refreshToken)
           /\ procs' = [Overtake(uid, p) EXCEPT ![p] =
                            [pc |-> "login_select", uid |-> uid,
                             refreshToken |-> refreshToken, intact |-> TRUE]]
    /\ UNCHANGED <<otps, clock, last, redeemed, projects>>

\* lines 174-175
LoginGenerate(p) ==
    /\ procs[p].pc = "login_generate"
    /\ LET uid == procs[p].uid
           pair == TokenPair(uid)
           refreshToken == Field(pair, "refreshToken")
       IN  /\ users' = StoreRefreshToken(uid, pair.refreshToken)
           /\ procs' = [Overtake(uid, p) EXCEPT ![p] =
                            [pc |-> "login_select", uid |-> uid,
                             refreshToken |-> refreshToken, intact |-> TRUE]]
    /\ UNCHANGED <<otps, clock, last, redeemed, projects>>

\* lines 177-200
LoginRespond(p) ==
    /\ procs[p].pc = "login_select"
    /\ last' = RespondUser("login", 200, procs[p].refreshToken,
                            Select(FieldsOf(users[procs[p].uid]),
                                   {"password", "refreshToken"}))
    /\ procs' = [procs EXCEPT ![p] = Idle]
    /\ UNCHANGED <<users, otps, clock, redeemed, projects>>

----------------------------------------------------------------------------
(* refreshAccessToken, fetchUserData, logoutUser *)

\* (mutant) the token is not compared with the one stored on the user
TokenRejectedWithoutCompare(us, now, incoming) ==
    \/ incoming = NoToken
    \/ ~JwtVerify(incoming, now)
    \/ incoming._id \notin DOMAIN us

\* lines 232-250 (and 283-301): TRUE when the request is answered with 401,
\* the collection being us and the time now
TokenRejectedIn(us, now, incoming) ==
    \/ incoming = NoToken
    \/ ~JwtVerify(incoming, now)
    \/ incoming._id \notin DOMAIN us
    \/ incoming # us[incoming._id].refreshToken

TokenRejected(incoming) == TokenRejectedIn(users, clock, incoming)

RefreshFind(p, incoming) ==
    /\ IsIdle(p)
    /\ IF TokenRejected(incoming)
       THEN /\ last' = Respond("refresh", 401, NoToken)
            /\ UNCHANGED procs
       ELSE /\ procs' = [procs EXCEPT ![p] =
                            [pc |-> "refresh_generate", uid |-> incoming._id,
                             incoming |-> incoming]]
            /\ UNCHANGED last
    /\ UNCHANGED <<users, otps, clock, redeemed, projects>>

\* lines 252-273
RefreshGenerate(p) ==
    /\ procs[p].pc = "refresh_generate"
    /\ LET uid == procs[p].uid
           pair == TokenPair(uid)
           newRefreshToken == Field(pair, "newRefreshToken")
       IN  /\ users' = StoreRefreshToken(uid, pair.refreshToken)
           /\ last' = Respond("refresh", 200, newRefreshToken)
           /\ procs' = [Overtake(uid, p) EXCEPT ![p] = Idle]
    /\ redeemed' = redeemed \cup {procs[p].incoming}
    /\ UNCHANGED <<otps, clock, projects>>

\* lines 279-331
FetchUserData(incoming) ==
    /\ last' = IF TokenRejected(incoming)
               THEN Respond("me", 401, NoToken)
               ELSE RespondUser("me", 200, NoToken,
                                {"fullname", "username", "email", "githubId"})
    /\ UNCHANGED <<users, otps, procs, clock, redeemed, projects>>

\* lines 203-226.  The update is  $set: { refreshToken: undefined }.  What it
\* writes depends on the Mongoose release the build installs: up to 5.x the
\* key is sent and the field becomes null, from 6.0 on undefined keys are
\* stripped from the update and the field keeps its value.
LogoutWrites(uid) == {NullToken, users[uid].refreshToken}

\* The route is behind the access-token middleware: req.user is a user that
\* has been issued an access token (one is issued with every refresh token;
\* logout does not revoke it).
Authenticated(uid) ==
    uid \in DOMAIN users /\ users[uid].refreshToken # NoToken

Logout(uid) ==
    /\ Authenticated(uid)
    /\ \E v \in LogoutWrites(uid) :
          /\ users' = StoreRefreshToken(uid, v)
          /\ procs' = IF v = NullToken THEN Overtake(uid, "none") ELSE procs
    /\ last' = Respond("logout", 200, NoToken)
    /\ UNCHANGED <<otps, clock, redeemed, projects>>

----------------------------------------------------------------------------
(* registerUser *)

\* utils/validator.js
isValidEmail(email) == email \in Emails
isValidGitHubId(githubId) == githubId \in GithubIds

\* field?.trim() === ""  (undefined?.trim() is undefined, which is not "")
IsBlank(field) == field = ""

\* (mutant) the query leaves the GitHub id out
ExistedUserWithoutGithubId(username, email, githubId) ==
    FirstOf({i \in DOMAIN users :
                \/ users[i].username = QueryUsername(username)
                \/ users[i].email = email})

\* lines 49-51: one query over the three identities
ExistedUser(username, email, githubId) ==
    FirstOf({i \in DOMAIN users :
                \/ users[i].username = QueryUsername(username)
                \/ users[i].email = email
                \/ users[i].githubId = githubId})

\* lines 27-55: the status the checks end the request with, 0 when they pass
RegisterChecks(username, fullname, email, password, githubId) ==
    IF \E f \in {username, fullname, email, password, githubId} : IsBlank(f)
    THEN 400
    ELSE IF ~isValidEmail(email) THEN 400
    ELSE IF ~isValidGitHubId(githubId) THEN 400
    ELSE IF ExistedUser(username, email, githubId) # 0 THEN 409
    ELSE 0

\* What a register request asked, for the record of its response: whether one
\* of its three identities is that of a user, and whether its fields are all
\* filled in and its email and GitHub id well formed.
IdentityInUse(username, email, githubId) ==
    \E i \in DOMAIN users :
        \/ username # Undefined /\ users[i].username = ToLowerCase(username)
        \/ users[i].email = email
        \/ users[i].githubId = githubId

WellFormed(username, fullname, email, password, githubId) ==
    /\ \A f \in {username, fullname, email, password, githubId} :
          f \notin {"", Undefined}
    /\ email \in Emails
    /\ githubId \in GithubIds

RegisterRequest(username, fullname, email, password, githubId) ==
    [identityInUse |-> IdentityInUse(username, email, githubId),
     wellFormed |-> WellFormed(username, fullname, email, password, githubId)]

\* lines 17-82.  username.toLowerCase() on a missing username is a TypeError,
\* which the catch turns into a 500.
RegisterCheck(p, username, fullname, email, password, githubId) ==
    /\ IsIdle(p)
    /\ LET status == RegisterChecks(username, fullname, email, password,
                                    githubId)
           req == RegisterRequest(username, fullname, email, password,
                                  githubId)
       IN  IF status # 0
           THEN /\ last' = RespondTo(req, "register", status, NoToken)
                /\ UNCHANGED procs
           ELSE IF username = Undefined
           THEN /\ last' = RespondTo(req, "register", 500, NoToken)
                /\ UNCHANGED procs
           ELSE /\ procs' = [procs EXCEPT ![p] =
                                [pc |-> "register_send", email |-> email,
                                 req |-> req]]
                /\ UNCHANGED last
    /\ UNCHANGED <<users, otps, clock, redeemed, projects>>

\* A request that has read an OtpVerification document keeps its _id.  The
\* model keeps, instead of the _id, whether that very document is still in the
\* collection: removing the documents of `emails` ends it for their holders.
Removed(emails, ps) ==
    [q \in Procs |->
        IF ps[q].pc = "verify_create" /\ ps[q].userData.email \in emails
        THEN [ps[q] EXCEPT !.otpVerStored = FALSE]
        ELSE ps[q]]

\* utils/sendOtpVerificationEmail.js: a code is generated, hashed and stored
\* keyed by the email
StoreOtp(email, code) ==
    {o \in otps : o.email # email}
        \cup {[email |-> email, otp |-> BcryptHash(code)]}

\* lines 84-91
RegisterSend(p, codes) ==
    /\ procs[p].pc = "register_send"
    /\ \E code \in codes : otps' = StoreOtp(procs[p].email, code)
    /\ last' = RespondTo(procs[p].req, "register", 201, NoToken)
    /\ procs' = Removed({procs[p].email}, [procs EXCEPT ![p] = Idle])
    /\ UNCHANGED <<users, clock, redeemed, projects>>

\* the stored code expires (the OtpVerification collection's expiry)
OtpExpire ==
    /\ \E o \in otps :
          /\ otps' = otps \ {o}
          /\ procs' = Removed({o.email}, procs)
    /\ UNCHANGED <<users, clock, last, redeemed, projects>>

----------------------------------------------------------------------------
(* verifyOtp *)

\* (mutant) the submitted code is not compared with the stored hash
VerifyChecksWithoutCompare(userOtp, userData) ==
    LET email == userData.email
        found == {o \in otps : o.email = email}
    IN  IF userOtp = Undefined \/ email = Undefined THEN 400
        ELSE IF found = {} THEN 404
        ELSE 0

\* (mutant) a request for an email with no stored code is let through
VerifyChecksWithoutFind(userOtp, userData) ==
    LET email == userData.email
        found == {o \in otps : o.email = email}
    IN  IF userOtp = Undefined \/ email = Undefined THEN 400
        ELSE IF \E o \in found : ~BcryptCompare(userOtp, o.otp) THEN 400
        ELSE 0

\* lines 104-118: the status the checks end the request with, 0 when they pass
VerifyChecks(userOtp, userData) ==
    LET email == userData.email
        found == {o \in otps : o.email = email}
    IN  IF userOtp = Undefined \/ email = Undefined THEN 400
        ELSE IF found = {} THEN 404
        ELSE LET otpVer == CHOOSE o \in found : TRUE
             IN  IF ~BcryptCompare(userOtp, otpVer.otp) THEN 400 ELSE 0

VerifyFind(p, userOtp, userData) ==
    /\ IsIdle(p)
    /\ LET status == VerifyChecks(userOtp, userData)
       IN  IF status # 0
           THEN /\ last' = Respond("verify", status, NoToken)
                /\ UNCHANGED procs
           ELSE /\ procs' = [procs EXCEPT ![p] =
                                [pc |-> "verify_create",
                                 otpVerStored |-> TRUE,
                                 userData |-> userData]]
                /\ UNCHANGED last
    /\ UNCHANGED <<users, otps, clock, redeemed, projects>>

\* userSchema: the required paths of the document
Required == {"username", "fullname", "email", "githubId", "password"}

\* userSchema: the unique indexes
DuplicateKey(doc) ==
    \E i \in DOMAIN users :
        users[i].username = doc.username \/ users[i].email = doc.email

\* (mutant) the save hook does not run: the password is stored as submitted
NewUserDocumentPlain(userData) ==
    [username |-> ToLowerCase(userData.username),
     fullname |-> userData.fullname,
     email |-> userData.email,
     githubId |-> userData.githubId,
     password |-> userData.password,
     refreshToken |-> NoToken,
     projects |-> <<>>]

\* userSchema and its pre("save") hook: the document User.create stores
NewUserDocument(userData) ==
    [username |-> ToLowerCase(userData.username),
     fullname |-> userData.fullname,
     email |-> userData.email,
     githubId |-> userData.githubId,
     password |-> BcryptHash(userData.password),
     refreshToken |-> NoToken,
     projects |-> <<>>]

\* User.create: TRUE when validation or a unique index refuses the document
CreateFails(userData) ==
    \/ \E f \in Required : userData[f] \in {Undefined, ""}
    \/ DuplicateKey(NewUserDocument(userData))

\* (mutant) the stored code is deleted only once the user has been created
VerifyCreateThenDelete(p) ==
    /\ procs[p].pc = "verify_create"
    /\ LET userData == procs[p].userData
           deleted == IF procs[p].otpVerStored /\ ~CreateFails(userData)
                      THEN {userData.email} ELSE {}
       IN  /\ otps' = {o \in otps : o.email \notin deleted}
           /\ procs' = Removed(deleted, [procs EXCEPT ![p] = Idle])
           /\ IF CreateFails(userData)
              THEN /\ last' = Respond("verify", 500, NoToken)
                   /\ UNCHANGED users
              ELSE /\ users' = Append(users, NewUserDocument(userData))
                   /\ last' = RespondUser("verify", 200, NoToken,
                                           FieldsOf(NewUserDocument(userData)))
    /\ UNCHANGED <<clock, redeemed, projects>>

\* lines 120-132: the stored code is deleted by _id, then the user is created
VerifyCreate(p) ==
    /\ procs[p].pc = "verify_create"
    /\ LET userData == procs[p].userData
           deleted == IF procs[p].otpVerStored THEN {userData.email} ELSE {}
       IN  /\ otps' = {o \in otps : o.email \notin deleted}
           /\ procs' = Removed(deleted, [procs EXCEPT ![p] = Idle])
           /\ IF CreateFails(userData)
              THEN /\ last' = Respond("verify", 500, NoToken)
                   /\ UNCHANGED users
              ELSE /\ users' = Append(users, NewUserDocument(userData))
                   /\ last' = RespondUser("verify", 200, NoToken,
                                           FieldsOf(NewUserDocument(userData)))
    /\ UNCHANGED <<clock, redeemed, projects>>

----------------------------------------------------------------------------
(* addProject, fetchUserProjects, fetchProject *)

\* the Project collection holds at most this many documents
MaxProjects == 2

ProjectName == "proj"

\* A string is the sequence of its pieces: words, "," and " ".
\* String.prototype.split(","): the pieces between the commas
RECURSIVE SplitFrom(_, _, _)
SplitFrom(str, done, cur) ==
    IF str = <<>> THEN Append(done, cur)
    ELSE IF Head(str) = "," THEN SplitFrom(Tail(str), Append(done, cur), <<>>)
    ELSE SplitFrom(Tail(str), done, Append(cur, Head(str)))

\* (mutant) a split that leaves the empty pieces out
SplitSkipEmpty(str) ==
    SelectSeq(SplitFrom(str, <<>>, <<>>), LAMBDA piece : piece # <<>>)

Split(str) == SplitFrom(str, <<>>, <<>>)

\* String.prototype.trim(), and the string the remaining pieces spell
RECURSIVE Trim(_)
Trim(str) ==
    IF str = <<>> THEN ""
    ELSE IF Head(str) = " " THEN Trim(Tail(str))
    ELSE IF str[Len(str)] = " " THEN Trim(SubSeq(str, 1, Len(str) - 1))
    ELSE Head(str) \o Trim(Tail(str))

\* lines 352-354
OwnerUsernames(ownersUsernames) ==
    LET pieces == Split(ownersUsernames)
    IN  [i \in 1..Len(pieces) |-> Trim(pieces[i])]

\* undefined, where a string in pieces is expected
UndefinedString == <<Undefined>>

\* what a client may send as ownersUsernames
OwnersInputs ==
    { <<" ", "alice">>, <<"alice", ",", " ", "bob">>, <<"bob">>,
      <<"alice", ",">>, <<>> }

\* (mutant) the save hook hashes the password on every save
PreSaveAlways(doc, modified) == [doc EXCEPT !.password = BcryptHash(@)]

\* the save hook of the schema: the password is hashed when it was modified
PreSave(doc, modified) ==
    IF "password" \in modified
    THEN [doc EXCEPT !.password = BcryptHash(@)]
    ELSE doc

\* (mutant) owners that are not found are left out of the list
AddProjectFindKnownOwners(p, uid, name, ownersUsernames) ==
    /\ IsIdle(p)
    /\ Authenticated(uid)
    /\ Len(projects)
          + Cardinality({q \in Procs : procs[q].pc = "project_create"})
            < MaxProjects
    /\ IF ownersUsernames = UndefinedString
       THEN /\ last' = Respond("addProject", 500, NoToken)
            /\ UNCHANGED procs
       ELSE LET ownerUsernames == OwnerUsernames(ownersUsernames)
                found == [i \in DOMAIN ownerUsernames |->
                             FirstOf({u \in DOMAIN users :
                                users[u].username
                                    = QueryUsername(ownerUsernames[i])})]
                owners == SelectSeq(found, LAMBDA u : u # 0)
            IN  IF name \in {Undefined, ""}
                THEN /\ last' = Respond("addProject", 400, NoToken)
                     /\ UNCHANGED procs
                ELSE /\ procs' = [procs EXCEPT ![p] =
                                     [pc |-> "project_create", uid |-> uid,
                                      name |-> name, owners |-> owners]]
                     /\ UNCHANGED last
    /\ UNCHANGED <<users, otps, clock, redeemed, projects>>

\* lines 340-382.  split on a missing ownersUsernames is a TypeError, which
\* the catch turns into a 500.  The requests carry no files.
AddProjectFind(p, uid, name, ownersUsernames) ==
    /\ IsIdle(p)
    /\ Authenticated(uid)
    /\ Len(projects)
          + Cardinality({q \in Procs : procs[q].pc = "project_create"})
            < MaxProjects
    /\ IF ownersUsernames = UndefinedString
       THEN /\ last' = Respond("addProject", 500, NoToken)
            /\ UNCHANGED procs
       ELSE LET ownerUsernames == OwnerUsernames(ownersUsernames)
                owners == [i \in DOMAIN ownerUsernames |->
                             FirstOf({u \in DOMAIN users :
                                users[u].username
                                    = QueryUsername(ownerUsernames[i])})]
            IN  IF name \in {Undefined, ""}
                THEN /\ last' = Respond("addProject", 400, NoToken)
                     /\ UNCHANGED procs
                ELSE IF \E i \in DOMAIN owners : owners[i] = 0
                THEN /\ last' = Respond("addProject", 404, NoToken)
                     /\ UNCHANGED procs
                ELSE /\ procs' = [procs EXCEPT ![p] =
                                     [pc |-> "project_create", uid |-> uid,
                                      name |-> name, owners |-> owners]]
                     /\ UNCHANGED last
    /\ UNCHANGED <<users, otps, clock, redeemed, projects>>

\* lines 452-466: Project.create
AddProjectCreate(p) ==
    /\ procs[p].pc = "project_create"
    /\ projects' = Append(projects, [name |-> procs[p].name,
                                     owners |-> procs[p].owners])
    /\ procs' = [procs EXCEPT ![p] =
                    [pc |-> "project_save", uid |-> procs[p].uid,
                     project |-> Len(projects) + 1]]
    /\ UNCHANGED <<users, otps, clock, last, redeemed>>

\* (mutant) the user is saved without the id having been pushed
AddProjectSaveWithoutPush(p) ==
    /\ procs[p].pc = "project_save"
    /\ LET uid == procs[p].uid
       IN  \/ /\ users' = [users EXCEPT
                                ![uid] = PreSave(users[uid], {"projects"})]
              /\ last' = Respond("addProject", 200, NoToken)
           \/ /\ last' = Respond("addProject", 500, NoToken)
              /\ UNCHANGED users
    /\ procs' = [procs EXCEPT ![p] = Idle]
    /\ UNCHANGED <<otps, clock, redeemed, projects>>

\* lines 467-478: the id is pushed on the user's list and the user saved; a
\* save the database refuses ends the request with a 500
AddProjectSave(p) ==
    /\ procs[p].pc = "project_save"
    /\ LET uid == procs[p].uid
           user == [users[uid] EXCEPT
                        !.projects = Append(@, procs[p].project)]
       IN  \/ /\ users' = [users EXCEPT ![uid] = PreSave(user, {"projects"})]
              /\ last' = Respond("addProject", 200, NoToken)
           \/ /\ last' = Respond("addProject", 500, NoToken)
              /\ UNCHANGED users
    /\ procs' = [procs EXCEPT ![p] = Idle]
    /\ UNCHANGED <<otps, clock, redeemed, projects>>

\* User.findOne({ username }), 0 for null
FindUser(username) ==
    FirstOf({u \in DOMAIN users : users[u].username = QueryUsername(username)})

\* lines 482-534: the Project documents of the user's list
FetchUserProjects(username) ==
    /\ last' = Respond("projects",
                       IF FindUser(username) = 0 THEN 404 ELSE 200, NoToken)
    /\ UNCHANGED <<users, otps, procs, clock, redeemed, projects>>

\* lines 536-587: the user's project of that name with its owners resolved;
\* reading the owners of a project that was not found is a TypeError (500)
FetchProject(username, projectName) ==
    /\ LET user == FindUser(username)
           ids == IF user = 0 THEN {}
                  ELSE {users[user].projects[i] :
                            i \in DOMAIN users[user].projects}
           project == FirstOf({k \in ids : projects[k].name = projectName})
       IN  last' =
             IF user = 0 THEN Respond("project", 404, NoToken)
             ELSE IF project = 0 THEN Respond("project", 500, NoToken)
             ELSE RespondUser("project", 200, NoToken,
                    UNION {Select(FieldsOf(users[projects[project].owners[i]]),
                                  {"refreshToken", "password"}) :
                             i \in DOMAIN projects[project].owners})
    /\ UNCHANGED <<users, otps, procs, clock, redeemed, projects>>

----------------------------------------------------------------------------
(* The system *)

\* what a client may send for a field the handler only checks for emptiness
Fullnames == {Fullname, "", Undefined}

\* the payload the client echoes back with the code: any fields it likes
UserDatas(usernames, fullnames, emails, githubIds) ==
    [username : usernames, fullname : fullnames,
     email : emails \cup {Undefined}, githubId : githubIds,
     password : {"pw1"}]

\* POST /users/register
Register(usernames, emails, githubIds, codes) ==
    \/ \E p \in Procs, username \in usernames \cup {"", Undefined},
          fullname \in Fullnames, email \in emails \cup {BadEmail},
          githubId \in githubIds \cup {BadGithubId} :
            RegisterCheck(p, username, fullname, email, "pw1", githubId)
    \/ \E p \in Procs : RegisterSend(p, codes)

\* POST /users/verify-otp
Verify(usernames, fullnames, emails, githubIds) ==
    \/ \E p \in Procs, userOtp \in Codes \cup {Undefined},
          userData \in UserDatas(usernames, fullnames, emails, githubIds) :
            VerifyFind(p, userOtp, userData)
    \/ \E p \in Procs : VerifyCreate(p)

\* POST /users/login
Login(usernames, emails) ==
    \/ \E p \in Procs, username \in usernames \cup {Undefined},
          email \in emails \cup {Undefined},
          password \in Passwords \cup {Undefined} :
            LoginFind(p, username, email, password)
    \/ \E p \in Procs : LoginGenerate(p)
    \/ \E p \in Procs : LoginRespond(p)

\* POST /users/refresh-token
Refresh ==
    \/ \E p \in Procs, incoming \in TokenInputs : RefreshFind(p, incoming)
    \/ \E p \in Procs : RefreshGenerate(p)

\* GET /users/me
Me == \E incoming \in TokenInputs : FetchUserData(incoming)

\* POST /users/logout
LogoutAny == \E uid \in UserIds : Logout(uid)

\* POST /users/add-project
AddProject ==
    \/ \E p \in Procs, uid \in UserIds, name \in {ProjectName, Undefined},
          ownersUsernames \in OwnersInputs \cup {UndefinedString} :
            AddProjectFind(p, uid, name, ownersUsernames)
    \/ \E p \in Procs : AddProjectCreate(p)
    \/ \E p \in Procs : AddProjectSave(p)

\* GET /users/:username/projects and /users/:username/projects/:projectName
Fetch ==
    \/ \E username \in {"Alice", "bob"} : FetchUserProjects(username)
    \/ \E username \in {"Alice", "bob"},
          projectName \in {ProjectName, "other"} :
            FetchProject(username, projectName)

\* The whole API, every client input allowed
NextAll ==
    \/ Tick
    \/ Register(RawUsernames, Emails, GithubIds, Codes)
    \/ OtpExpire
    \/ Verify(RawUsernames, {Fullname, Undefined}, Emails, GithubIds)
    \/ Login(RawUsernames \cup {"alice"}, Emails)
    \/ Refresh
    \/ Me
    \/ LogoutAny
    \/ AddProject
    \/ Fetch

SpecAll == Init /\ [][NextAll]_vars

\* Sign-up: registrations and verifications of every identity, interleaved
NextSignup ==
    \/ Register(RawUsernames, Emails, GithubIds, Codes)
    \/ OtpExpire
    \/ Verify(RawUsernames, {Fullname}, Emails, GithubIds)

SpecSignup == Init /\ [][NextSignup]_vars

\* The life of one account, from its registration on: every endpoint, the
\* sign-up requests being those of one identity
Next ==
    \/ Tick
    \/ Register({"Alice"}, {"a@x.io"}, {"gh-a"}, {"1111"})
    \/ OtpExpire
    \/ Verify({"Alice"}, {Fullname, Undefined}, {"a@x.io"}, {"gh-a"})
    \/ Login({"Alice", "alice", "bob"}, {"a@x.io"})
    \/ Refresh
    \/ Me
    \/ LogoutAny

Spec == Init /\ [][Next]_vars

\* The projects of one account: sign-up of one identity, its sessions, and
\* the project endpoints, all within one second
NextProjects ==
    \/ Register({"Alice"}, {"a@x.io"}, {"gh-a"}, {"1111"})
    \/ Verify({"Alice"}, {Fullname}, {"a@x.io"}, {"gh-a"})
    \/ Login({"alice"}, {"a@x.io"})
    \/ Refresh
    \/ LogoutAny
    \/ AddProject
    \/ Fetch

SpecProjects == Init /\ [][NextProjects]_vars

----------------------------------------------------------------------------
(* Claims *)

IsToken(t) == "sig" \in DOMAIN t /\ t.sig

AsksForIdentityInUse(r) ==
    "identityInUse" \in DOMAIN r.req /\ r.req.identityInUse

\* C2 as stated: a register request naming a username, email or githubId that
\* a user has is answered 409, and it changes neither the users nor the
\* stored codes.
C2_Original ==
    [][ (last' # last /\ last'.op = "register" /\ AsksForIdentityInUse(last'))
            => /\ last'.status = 409
               /\ users' = users
               /\ otps' = otps
      ]_vars

\* C2 amended: the same of a register request whose fields are all filled in
\* and whose email and GitHub id are well formed (the field checks come first
\* and answer 400).  The request stores no code, so no verify-otp follows
\* from it.
C2_ConflictWhenWellFormed ==
    [][ (last' # last /\ last'.op = "register" /\ AsksForIdentityInUse(last')
            /\ last'.req.wellFormed)
            => /\ last'.status = 409
               /\ users' = users
               /\ otps' = otps
               /\ procs' = procs
      ]_vars

C2_Witness ==
    /\ last.op = "register"
    /\ last.status = 409
    /\ AsksForIdentityInUse(last)
    /\ last.req.wellFormed
    /\ Len(users) = 1

\* C3: when a login answers 200, the refresh token in the answer is the one it
\* saved on the user's document in place of what was there, and unless
\* another login, refresh or logout of that user wrote the field since, it is
\* what the document holds.
C3_LoginStoresReturnedToken ==
    [][ \A p \in Procs :
          /\ (procs[p].pc = "login_generate" /\ procs'[p].pc = "login_select")
                => /\ IsToken(procs'[p].refreshToken)
                   /\ users'[procs[p].uid].refreshToken
                        = procs'[p].refreshToken
          /\ (procs[p].pc = "login_select" /\ procs'[p].pc = "idle")
                => /\ last'.op = "login"
                   /\ last'.status = 200
                   /\ last'.refreshToken = procs[p].refreshToken
                   /\ procs[p].intact =>
                        users'[procs[p].uid].refreshToken = last'.refreshToken
      ]_vars

\* a login has answered with a token that replaced an older one
C3_Witness ==
    /\ last.op = "login"
    /\ last.status = 200
    /\ IsToken(last.refreshToken)
    /\ last.refreshToken.iat > 0
    /\ users[last.refreshToken._id].refreshToken = last.refreshToken

\* the step in which request p's refresh succeeds
RefreshSucceeds(p) ==
    procs[p].pc = "refresh_generate" /\ procs'[p].pc = "idle"

\* the step in which request p's login issues its tokens
LoginIssues(p) ==
    procs[p].pc = "login_generate" /\ procs'[p].pc = "login_select"

\* C4 as stated: once a refresh presenting token T has succeeded, a refresh
\* presenting T is refused, and one presenting the token just issued is
\* accepted.
C4_Original ==
    [][ \A p \in Procs :
          RefreshSucceeds(p) =>
            /\ TokenRejectedIn(users', clock', procs[p].incoming)
            /\ ~TokenRejectedIn(users', clock',
                                users'[procs[p].uid].refreshToken)
      ]_vars

\* C5 as stated: the refresh token a successful refresh returns differs from
\* the one presented and is the one then stored on the user.
C5_Original ==
    [][ \A p \in Procs :
          RefreshSucceeds(p) =>
            /\ last'.op = "refresh" /\ last'.status = 200
            /\ last'.refreshToken # procs[p].incoming
            /\ last'.refreshToken = users'[procs[p].uid].refreshToken
      ]_vars

\* C6 as stated: at any time at most one token value per user is accepted,
\* the stored one, and when login or refresh issues a token the one that was
\* accepted until then is refused from then on.
C6_Original ==
    /\ [](\A t \in TokenInputs :
            ~TokenRejected(t) => t = users[t._id].refreshToken)
    /\ [][ \A p \in Procs :
              ((LoginIssues(p) \/ RefreshSucceeds(p))
                    /\ IsToken(users[procs[p].uid].refreshToken))
                => TokenRejectedIn(users', clock',
                                   users[procs[p].uid].refreshToken)
          ]_vars

\* C7 as stated: no refresh succeeds with a token that a refresh has already
\* succeeded with.
C7_Original ==
    [][ \A p \in Procs :
          RefreshSucceeds(p) => procs[p].incoming \notin redeemed
      ]_vars

\* the four cases of C8, in the claim's words
AbsentOrInvalid(incoming) ==
    \/ incoming = NoToken
    \/ ~incoming.sig
    \/ clock >= incoming.iat + RefreshTokenExpiry
    \/ incoming._id > Len(users)
    \/ users[incoming._id].refreshToken # incoming

\* C8: a refresh request whose token is absent, forged or expired, names no
\* user, or is not the user's stored token is answered 401; it issues no
\* token and leaves every stored refreshToken as it was.
C8_RefreshRejects ==
    [][ \A p \in Procs :
          (IsIdle(p) /\ (\/ last' # last /\ last'.op = "refresh"
                         \/ procs'[p] # procs[p])) =>
            \A incoming \in TokenInputs :
              (AbsentOrInvalid(incoming) /\ RefreshFind(p, incoming)) =>
                /\ last' = Respond("refresh", 401, NoToken)
                /\ users' = users
                /\ procs' = procs
      ]_vars

\* a refresh was refused while the user had a stored token
C8_Witness ==
    /\ last.op = "refresh"
    /\ last.status = 401
    /\ Len(users) = 1
    /\ IsToken(users[1].refreshToken)

\* C9 as stated: when a logout completes the user's stored refreshToken is
\* cleared, and no refresh token of that user is accepted by refresh-token or
\* /users/me.
C9_Original ==
    [][ \A uid \in UserIds :
          Logout(uid) =>
            /\ ~IsToken(users'[uid].refreshToken)
            /\ \A t \in TokenInputs :
                  (IsToken(t) /\ t._id = uid)
                    => TokenRejectedIn(users', clock', t)
      ]_vars

NoPendingOtp(email) == \A o \in otps : o.email # email

CodeMismatch(userOtp, email) ==
    /\ ~NoPendingOtp(email)
    /\ \A o \in otps : o.email = email => o.otp # BcryptHash(userOtp)

VerifyRefused(status) ==
    /\ last' = Respond("verify", status, NoToken)
    /\ users' = users
    /\ procs' = procs

VerifyInputs == UserDatas({"Alice"}, {Fullname, Undefined}, {"a@x.io"}, {"gh-a"})

\* C10 as stated: a verifyOtp request for an email with no stored code is
\* answered 404, and one whose code does not match the stored hash is
\* answered with an error; neither creates a user.
C10_Original ==
    [][ \A p \in Procs :
          (IsIdle(p) /\ (\/ last' # last /\ last'.op = "verify"
                         \/ procs'[p] # procs[p])) =>
            \A userOtp \in Codes \cup {Undefined}, userData \in VerifyInputs :
              (userData.email # Undefined
                    /\ VerifyFind(p, userOtp, userData)) =>
                /\ NoPendingOtp(userData.email) => VerifyRefused(404)
                /\ (userOtp # Undefined
                        /\ CodeMismatch(userOtp, userData.email))
                      => VerifyRefused(400)
      ]_vars

\* C10 amended: the same of a request that carries a code (without one the
\* answer is 400 whether or not a code is stored); the answer to a code that
\* does not match is 400.
C10_VerifyRejects ==
    [][ \A p \in Procs :
          (IsIdle(p) /\ (\/ last' # last /\ last'.op = "verify"
                         \/ procs'[p] # procs[p])) =>
            \A userOtp \in Codes, userData \in VerifyInputs :
              (userData.email # Undefined
                    /\ VerifyFind(p, userOtp, userData)) =>
                /\ NoPendingOtp(userData.email) => VerifyRefused(404)
                /\ CodeMismatch(userOtp, userData.email)
                      => VerifyRefused(400)
      ]_vars

\* a wrong code was refused while a code was stored
C10_Witness ==
    /\ last.op = "verify"
    /\ last.status = 400
    /\ otps # {}
    /\ users = <<>>

\* two requests hold the same stored code, each having found it to match
PassedSameOtp(p, q) ==
    /\ procs[p].pc = "verify_create" /\ procs[p].otpVerStored
    /\ procs[q].pc = "verify_create" /\ procs[q].otpVerStored
    /\ procs[p].userData.email = procs[q].userData.email

\* C11 as stated: when a verifyOtp request that passed the check goes on, the
\* stored code is gone, and no two verifyOtp requests pass the check against
\* the same stored code, however they interleave.
C11_Original ==
    /\ [][ \A p \in Procs :
              (procs[p].pc = "verify_create" /\ procs'[p].pc = "idle") =>
                \A o \in otps' :
                    o.email = procs[p].userData.email => o \notin otps
          ]_vars
    /\ [](\A p, q \in Procs : p # q => ~PassedSameOtp(p, q))

LoginInputs ==
    ({"Alice", "alice", "bob"} \cup {Undefined})
        \X ({"a@x.io"} \cup {Undefined})
        \X (Passwords \cup {Undefined})

\* the users a login with this username and email is matched against
LoginMatches(username, email) ==
    {i \in DOMAIN users :
        \/ username # Undefined /\ users[i].username = ToLowerCase(username)
        \/ email # Undefined /\ users[i].email = email}

LoginRefused(status) ==
    /\ last' = Respond("login", status, NoToken)
    /\ users' = users
    /\ procs' = procs

\* C12 as stated: a login that matches no user is answered 404 and one whose
\* password is not that of the matched user 401; neither issues tokens or
\* touches a stored refreshToken.
C12_Original ==
    [][ \A p \in Procs :
          (IsIdle(p) /\ (\/ last' # last /\ last'.op = "login"
                         \/ procs'[p].pc = "login_generate")) =>
            \A in \in LoginInputs :
              LoginFind(p, in[1], in[2], in[3]) =>
                /\ LoginMatches(in[1], in[2]) = {} => LoginRefused(404)
                /\ (\E i \in LoginMatches(in[1], in[2]) :
                        users[i].password # BcryptHash(in[3]))
                      => LoginRefused(401)
      ]_vars

\* C12 amended: the same of a login that carries a password and a username or
\* an email (without them the answer is 400 before any user is looked up).
C12_LoginRejects ==
    [][ \A p \in Procs :
          (IsIdle(p) /\ (\/ last' # last /\ last'.op = "login"
                         \/ procs'[p].pc = "login_generate")) =>
            \A in \in LoginInputs :
              (/\ in[3] # Undefined
               /\ in[1] # Undefined \/ in[2] # Undefined
               /\ LoginFind(p, in[1], in[2], in[3])) =>
                /\ LoginMatches(in[1], in[2]) = {} => LoginRefused(404)
                /\ (\E i \in LoginMatches(in[1], in[2]) :
                        users[i].password # BcryptHash(in[3]))
                      => LoginRefused(401)
      ]_vars

\* a login with the wrong password was refused while the user held a token
C12_Witness ==
    /\ last.op = "login"
    /\ last.status = 401
    /\ Len(users) = 1
    /\ IsToken(users[1].refreshToken)

\* the step in which request p's verifyOtp creates its user
VerifyCreates(p) ==
    /\ procs[p].pc = "verify_create"
    /\ Len(users') = Len(users) + 1

C14_Original ==
    last.user \cap {"password", "refreshToken"} = {}

\* some name of the submitted list, split at the commas and trimmed, is the
\* username of no user
SomeOwnerUnknown(ownersUsernames) ==
    \E i \in DOMAIN OwnerUsernames(ownersUsernames) :
        \A u \in DOMAIN users :
            users[u].username # ToLowerCase(OwnerUsernames(ownersUsernames)[i])

AddProjectRefused(status) ==
    /\ last' = Respond("addProject", status, NoToken)
    /\ projects' = projects
    /\ users' = users
    /\ procs' = procs

C16_ProjectOwners ==
    /\ [](\A k \in DOMAIN projects :
            /\ Len(projects[k].owners) >= 1
            /\ \A i \in DOMAIN projects[k].owners :
                  projects[k].owners[i] \in DOMAIN users)
    /\ [][ Len(projects') > Len(projects) =>
             /\ Len(projects') = Len(projects) + 1
             /\ \A i \in DOMAIN projects'[Len(projects')].owners :
                   projects'[Len(projects')].owners[i] \in DOMAIN users
         ]_vars

\* two projects are stored
C16_Witness ==
    /\ Len(projects) = 2
    /\ Len(projects[2].owners) >= 1

\* C17 as stated: a register request with a required field missing or empty,
\* or with a malformed email or GitHub id, is answered 400, and no code is
\* stored or mailed for it.
C17_Original ==
    [][ \A p \in Procs :
          /\ (/\ last' # last
              /\ last'.op = "register"
              /\ "wellFormed" \in DOMAIN last'.req
              /\ ~last'.req.wellFormed)
                => last'.status = 400 /\ otps' = otps
          /\ (procs'[p].pc = "register_send" /\ procs'[p] # procs[p])
                => procs'[p].req.wellFormed
      ]_vars

\* project k is on the projects list of user u of the collection us
OnList(us, u, k) == \E i \in DOMAIN us[u].projects : us[u].projects[i] = k

\* project k is stored, on nobody's list, and no request is about to save it
Orphan(us, ps, k) ==
    /\ \A u \in DOMAIN us : ~OnList(us, u, k)
    /\ \A p \in Procs : ~(ps[p].pc = "project_save" /\ ps[p].project = k)

\* the step in which request p ends after Project.create
AddProjectEnds(p) ==
    procs[p].pc = "project_save" /\ procs'[p].pc = "idle"

\* C18: an addProject request that ends with 200 leaves its project on the
\* creator's list; a stored project comes to be on no list only in the step
\* in which its request fails after Project.create; and once it is on no
\* list, no step puts it on one.
C18_OrphanOnlyOnFailure ==
    [][ /\ \A p \in Procs :
              (AddProjectEnds(p) /\ last'.status = 200)
                => OnList(users', procs[p].uid, procs[p].project)
        /\ \A k \in DOMAIN projects' :
              (Orphan(users', procs', k)
                    /\ ~(k \in DOMAIN projects /\ Orphan(users, procs, k)))
                => \E p \in Procs :
                      /\ AddProjectEnds(p)
                      /\ procs[p].project = k
                      /\ last' = Respond("addProject", 500, NoToken)
        /\ \A k \in DOMAIN projects :
              Orphan(users, procs, k) => Orphan(users', procs', k)
      ]_vars

\* the first project was orphaned, the second one saved on its creator's list
C18_Witness ==
    /\ Len(projects) = 2
    /\ Len(users) = 1
    /\ users[1].projects = <<2>>
    /\ Orphan(users, procs, 1)
    /\ last = Respond("addProject", 200, NoToken)

\* C19 as stated: of two logins of one user in flight together, each is
\* answered with a refresh token; when the second stores its token, the
\* stored token is that one, and the token of the first is refused by a
\* refresh from then on.
C19_Original ==
    [][ \A p, q \in Procs :
          /\ (procs[p].pc = "login_select" /\ procs'[p].pc = "idle")
                => IsToken(last'.refreshToken)
          /\ (/\ p # q
              /\ LoginIssues(q)
              /\ procs[p].pc = "login_select"
              /\ procs[p].uid = procs[q].uid)
                => /\ users'[procs[q].uid].refreshToken = procs'[q].refreshToken
                   /\ TokenRejectedIn(users', clock', procs[p].refreshToken)
      ]_vars

\* C20 as stated: a verifyOtp request whose code does not match the stored
\* hash removes the stored code of that email, so that a later request with
\* the right code finds none.
C20_Original ==
    [][ \A p \in Procs :
          (IsIdle(p) /\ last' # last /\ last'.op = "verify") =>
            \A userOtp \in Codes, userData \in VerifyInputs :
              (/\ userData.email # Undefined
               /\ CodeMismatch(userOtp, userData.email)
               /\ VerifyFind(p, userOtp, userData))
                => \A o \in otps' : o.email # userData.email
      ]_vars

\* C21 as stated: no two stored users have the same username, the same email
\* or the same githubId.
C21_Original ==
    \A i, j \in DOMAIN users :
        i # j =>
            /\ users[i].username # users[j].username
            /\ users[i].email # users[j].email
            /\ users[i].githubId # users[j].githubId

\* the step in which request p's User.create is refused
CreateRefused(p) ==
    /\ procs[p].pc = "verify_create"
    /\ procs'[p].pc = "idle"
    /\ CreateFails(procs[p].userData)

\* C22 as stated: when User.create fails in a verifyOtp request whose code
\* matched, the request is answered 500 and no user is created, and no code
\* is stored for the email any more, so that a retry is answered 404.
C22_Original ==
    [][ \A p \in Procs :
          CreateRefused(p) =>
            /\ last' = Respond("verify", 500, NoToken)
            /\ users' = users
            /\ \A o \in otps' : o.email # procs[p].userData.email
      ]_vars

\* C22 amended: the same, the retry being answered 404 unless a newer code
\* has been stored for the email since the request read its own (the request
\* deletes the code it read, by _id).
C22_FailedCreateConsumesOtp ==
    [][ \A p \in Procs :
          CreateRefused(p) =>
            /\ last' = Respond("verify", 500, NoToken)
            /\ users' = users
            /\ procs[p].otpVerStored =>
                  \A o \in otps' : o.email # procs[p].userData.email
      ]_vars

\* a verifyOtp whose payload lacked a required field ended in a 500, the
\* code gone and no user created
C22_Witness ==
    /\ last = Respond("verify", 500, NoToken)
    /\ otps = {}
    /\ users = <<>>
    /\ \A p \in Procs : IsIdle(p)

\* C23: the save of addProject leaves the user's stored password as it was,
\* so every password that logs the user in before logs them in after.
C23_AddProjectKeepsPassword ==
    [][ \A p \in Procs :
          AddProjectEnds(p) =>
            /\ users'[procs[p].uid].password = users[procs[p].uid].password
            /\ \A pw \in Passwords :
                  BcryptCompare(pw, users[procs[p].uid].password)
                    => BcryptCompare(pw, users'[procs[p].uid].password)
      ]_vars

\* the user logged in with pw1 after two of their projects were saved
C23_Witness ==
    /\ Len(users) = 1
    /\ users[1].projects = <<1, 2>>
    /\ last.op = "login"
    /\ last.status = 200
    /\ BcryptCompare("pw1", users[1].password)

====
